---- MODULE Spec2Model ----
(***************************************************************************)
(* A model of src/sched.c, the event scheduler of i3blocks: sched_init     *)
(* (setup_signals, setup_timer, eventio_stdin) and sched_start (the        *)
(* select loop, the signal dispatch, the data sweep and the shutdown       *)
(* sequence).                                                              *)
(*                                                                         *)
(* The process is sequential: pc is its position.  The kernel's state is   *)
(* the signal mask (blocked), the signals pending on the signal            *)
(* descriptor (pending), the interval timer (itimer) and the child         *)
(* processes (running, zombies).  calls is the trace of what the process   *)
(* did since the last loop top: its system calls and the collaborator      *)
(* functions it called, in order.                                          *)
(***************************************************************************)
EXTENDS Integers, Sequences, FiniteSets, TLC

(***************************************************************************)
(* Signal numbers (Linux, glibc) and errno values used by sched.c.         *)
(***************************************************************************)
SIGINT == 2
SIGUSR1 == 10
SIGUSR2 == 12
SIGALRM == 14
SIGTERM == 15
SIGCHLD == 17
SIGIO == 29
SIGRTMIN == 34
SIGRTMAX == 64
EINTR == 4

(***************************************************************************)
(* block.h (not part of src/): the sentinel intervals and the readiness    *)
(* flags handed to block_read_std.                                         *)
(***************************************************************************)
INTER_ONCE == -1
INTER_BLOCKING == -3
READY_STDOUT == 1
READY_STDERR == 2

(***************************************************************************)
(* Bounds of the model.                                                    *)
(***************************************************************************)
\* blocks of a bar in the reactor's specification
MaxBlocks == 2
\* signals pending on the descriptor at the same time
MaxPending == 2
\* blocks of a bar, and the largest interval, where sched_init is checked
MaxBarLen == 3
MaxInterval == 6
\* blocks of a bar, and environment events (signals, child exits, failing
\* system calls), of a fair run
MaxFairBlocks == 1
MaxEvents == 3

VARIABLES bar, pc, sigset, blocked, pending, itimer, running, zombies,
          rfds, nfds, rfds_read, rfds_exc, avail_fds, sig, calls, budget

vars == <<bar, pc, sigset, blocked, pending, itimer, running, zombies,
          rfds, nfds, rfds_read, rfds_exc, avail_fds, sig, calls, budget>>

kernel == <<blocked, pending, itimer, running, zombies>>
locals == <<rfds, nfds, rfds_read, rfds_exc, avail_fds, sig>>

(***************************************************************************)
(* The bar: bar->num blocks, block i (0-based, as in the C code) with      *)
(* bar->blocks[i].interval, .out and .err.                                 *)
(***************************************************************************)
num == Len(bar)
Blocks == 0 .. (num - 1)
interval(i) == bar[i + 1]

\* the descriptor signalfd() returned, and the pipes of block i
sigfd == 3
out(i) == 2 * i + 4
err(i) == 2 * i + 5

Max(S) == CHOOSE m \in S : \A x \in S : x <= m

\* one entry of calls: the function and up to three integer arguments
Call(op, a, b, c) == <<op, a, b, c>>

RECURSIVE SeqOver(_, _)
\* all sequences over S of length at most n
SeqOver(S, n) ==
    IF n = 0 THEN {<<>>}
    ELSE LET shorter == SeqOver(S, n - 1)
         IN  shorter \cup {Append(s, x) : s \in {t \in shorter : Len(t) = n - 1}, x \in S}

(***************************************************************************)
(* longest_sleep and its nested gcd.                                       *)
(***************************************************************************)
RECURSIVE Xor(_, _)
\* a ^ b on non-negative integers
Xor(a, b) ==
    IF a = 0 THEN b
    ELSE IF b = 0 THEN a
    ELSE 2 * Xor(a \div 2, b \div 2) + ((a + b) % 2)

RECURSIVE gcd(_, _)
\* while (b != 0) a %= b, a ^= b, b ^= a, a ^= b; return a;
gcd(a, b) ==
    IF b # 0
    THEN LET a1 == a % b
             a2 == Xor(a1, b)
             b2 == Xor(b, a2)
             a3 == Xor(a2, b2)
         IN  gcd(a3, b2)
    ELSE a

RECURSIVE sleep_loop(_, _, _)
\* for (i = 1; i < bar->num; ++i) if (interval > 0) time = gcd(time, interval)
sleep_loop(b, i, time) ==
    IF i < Len(b)
    THEN sleep_loop(b, i + 1, IF b[i + 1] > 0 THEN gcd(time, b[i + 1]) ELSE time)
    ELSE time

\* longest_sleep with its loop started one block too late
longest_sleep_skips_second(b) ==
    LET time0 == IF Len(b) > 0 /\ b[1] > 0 THEN b[1] ELSE 0
    IN  IF Len(b) < 2 THEN time0 ELSE sleep_loop(b, 2, time0)

longest_sleep(b) ==
    LET time0 == IF Len(b) > 0 /\ b[1] > 0 THEN b[1] ELSE 0
    IN  IF Len(b) < 2 THEN time0 ELSE sleep_loop(b, 1, time0)

(***************************************************************************)
(* Environment events are counted in fair runs only: budget is the number  *)
(* of events left, and -1 where they are not counted.                      *)
(***************************************************************************)
CanSpend == budget # 0
Spend == budget' = (IF budget > 0 THEN budget - 1 ELSE budget)

(***************************************************************************)
(* sched_init, stage 1: setup_signals.                                     *)
(***************************************************************************)
\* the set without its ADD_SIG(SIGIO) line
BuiltSigset_without_SIGIO ==
    {SIGTERM, SIGINT, SIGALRM, SIGCHLD, SIGUSR1, SIGUSR2}
        \cup ((SIGRTMIN + 1) .. SIGRTMAX)

\* the set the ADD_SIG lines build
BuiltSigset ==
    {SIGTERM, SIGINT, SIGALRM, SIGCHLD, SIGUSR1, SIGUSR2, SIGIO}
        \cup ((SIGRTMIN + 1) .. SIGRTMAX)

\* sched_init going on to setup_timer although setup_signals returned 1
SetupSignals_ignoring_failure ==
    /\ pc = "init"
    /\ \E ok \in BOOLEAN :
         IF ok
         THEN /\ sigset' = BuiltSigset
              /\ blocked' = BuiltSigset
              /\ calls' = Append(calls, Call("setup_signals", 0, 0, 0))
         ELSE /\ sigset' = BuiltSigset
              /\ blocked' = blocked
              /\ calls' = Append(calls, Call("setup_signals", 1, 0, 0))
    /\ pc' = "timer"
    /\ UNCHANGED <<bar, pending, itimer, running, zombies, locals, budget>>

SetupSignals ==
    /\ pc = "init"
    /\ \E ok \in BOOLEAN :
         IF ok
         THEN /\ sigset' = BuiltSigset
              /\ blocked' = BuiltSigset
              /\ calls' = Append(calls, Call("setup_signals", 0, 0, 0))
              /\ pc' = "timer"
         ELSE \* signalfd() failed: errorx, return 1
              /\ sigset' = BuiltSigset
              /\ blocked' = blocked
              /\ calls' = Append(calls, Call("setup_signals", 1, 0, 0))
              /\ pc' = "failed"
    /\ UNCHANGED <<bar, pending, itimer, running, zombies, locals, budget>>

(***************************************************************************)
(* sched_init, stage 2: setup_timer.                                       *)
(***************************************************************************)
\* a timer that fires once: .it_interval left 0
timer_value_one_shot(sleeptime) == [it_value |-> sleeptime, it_interval |-> 0]

\* the struct itimerval handed to setitimer
timer_value(sleeptime) == [it_value |-> sleeptime, it_interval |-> sleeptime]

SetupTimer ==
    /\ pc = "timer"
    /\ LET sleeptime == longest_sleep(bar)
       IN  IF sleeptime = 0
           THEN \* "no timer needed"
                /\ itimer' = itimer
                /\ calls' = Append(calls, Call("setup_timer", 0, 0, 0))
                /\ pc' = "stdin"
           ELSE \E ok \in BOOLEAN :
                  IF ok
                  THEN /\ itimer' = timer_value(sleeptime)
                       /\ calls' = Append(calls, Call("setup_timer", 0, sleeptime, 0))
                       /\ pc' = "stdin"
                  ELSE \* setitimer() failed
                       /\ itimer' = itimer
                       /\ calls' = Append(calls, Call("setup_timer", 1, sleeptime, 0))
                       /\ pc' = "failed"
    /\ UNCHANGED <<bar, sigset, blocked, pending, running, zombies, locals, budget>>

(***************************************************************************)
(* sched_init, stage 3: eventio_stdin, when stdin is not a terminal.       *)
(***************************************************************************)
SetupStdin ==
    /\ pc = "stdin"
    /\ \E tty \in BOOLEAN, ok \in BOOLEAN :
         IF tty
         THEN /\ ok
              /\ calls' = Append(calls, Call("isatty", 1, 0, 0))
              /\ pc' = "start"
         ELSE /\ calls' = calls \o <<Call("isatty", 0, 0, 0),
                                      Call("eventio_stdin", IF ok THEN 0 ELSE 1, 0, 0)>>
              /\ pc' = IF ok THEN "start" ELSE "failed"
    /\ UNCHANGED <<bar, sigset, kernel, locals, budget>>

(***************************************************************************)
(* The environment: signals sent to the process, its timer, its children.  *)
(* The process observes none of them except in a system call, so they are  *)
(* interleaved only where it is between sched_init and sched_start or      *)
(* inside select, read or waitpid.                                         *)
(***************************************************************************)
EnvEnabled == pc \in {"start", "select", "sigread", "reap"}

\* the signals the environment sends
RaisedSignals == {SIGINT, SIGUSR1, SIGALRM, SIGTERM, SIGCHLD, SIGIO, SIGRTMIN + 1}

\* the default disposition of every signal of the set but SIGCHLD is to terminate
DefaultTerminates(s) == s # SIGCHLD

\* signal s is generated for the process
Deliver(s) ==
    IF s \in blocked
    THEN /\ s \in pending \/ Cardinality(pending) < MaxPending
         /\ pending' = pending \cup {s}
         /\ pc' = pc
    ELSE /\ pending' = pending
         /\ pc' = IF DefaultTerminates(s) THEN "killed" ELSE pc

RaiseSignal ==
    /\ EnvEnabled
    /\ CanSpend /\ Spend
    /\ \E s \in RaisedSignals : Deliver(s)
    /\ UNCHANGED <<bar, sigset, blocked, itimer, running, zombies, locals, calls>>

\* ITIMER_REAL expires: SIGALRM, and the timer is reloaded from it_interval
TimerExpiry ==
    /\ EnvEnabled
    /\ itimer.it_value > 0
    /\ CanSpend /\ Spend
    /\ Deliver(SIGALRM)
    /\ itimer' = [it_value |-> itimer.it_interval, it_interval |-> itimer.it_interval]
    /\ UNCHANGED <<bar, sigset, blocked, running, zombies, locals, calls>>

\* a child terminates: it is a zombie until waited for, and the parent gets SIGCHLD
ChildExit ==
    /\ EnvEnabled
    /\ running > 0
    /\ CanSpend /\ Spend
    /\ running' = running - 1
    /\ zombies' = zombies + 1
    /\ Deliver(SIGCHLD)
    /\ UNCHANGED <<bar, sigset, blocked, itimer, locals, calls>>

(***************************************************************************)
(* The collaborators' effect on the child processes (bar.c, block.c: not   *)
(* part of src/): a block has at most one child; the poll functions may    *)
(* spawn one, and bar_poll_exited first reaps every child that exited.     *)
(***************************************************************************)
MaySpawn(r, z) == {n \in 0 .. 1 : r + z + n <= num}

Collaborate(s) ==
    IF s = SIGCHLD
    THEN /\ zombies' = 0
         /\ \E n \in MaySpawn(running, 0) : running' = running + n
    ELSE IF s \in {SIGALRM, SIGIO} \cup ((SIGRTMIN + 1) .. SIGRTMAX)
    THEN /\ zombies' = zombies
         /\ \E n \in MaySpawn(running, zombies) : running' = running + n
    ELSE UNCHANGED <<running, zombies>>

(***************************************************************************)
(* sched_start: the initial display, the first forks, and the Wait Set.    *)
(***************************************************************************)
is_blocking(i) == interval(i) = INTER_BLOCKING

\* ADD_FD(sigfd), then ADD_FD(out), ADD_FD(err) of every INTER_BLOCKING block
built_rfds == {sigfd} \cup UNION {{out(i), err(i)} : i \in {j \in Blocks : is_blocking(j)}}

\* nfds = MAX(_fd, nfds) over the added descriptors; if (nfds != 0) nfds++
built_nfds ==
    LET highest == Max({0} \cup built_rfds)
    IN  IF highest # 0 THEN highest + 1 ELSE highest

\* the first forks before the initial display
Start_polling_first ==
    /\ pc = "start"
    /\ calls' = <<Call("bar_poll_timed", 0, 0, 0), Call("json_print_bar", 0, 0, 0)>>
    /\ \E n \in 0 .. num : running' = n
    /\ pc' = "build"
    /\ UNCHANGED <<bar, sigset, blocked, pending, itimer, zombies, locals, budget>>

\* lines 198-203: json_print_bar(bar); bar_poll_timed(bar), which may fork
Start ==
    /\ pc = "start"
    /\ calls' = <<Call("json_print_bar", 0, 0, 0), Call("bar_poll_timed", 0, 0, 0)>>
    /\ \E n \in 0 .. num : running' = n
    /\ pc' = "build"
    /\ UNCHANGED <<bar, sigset, blocked, pending, itimer, zombies, locals, budget>>

\* lines 205-229: FD_ZERO, the ADD_FD lines, nfds
BuildWaitSet ==
    /\ pc = "build"
    /\ rfds' = built_rfds
    /\ nfds' = built_nfds
    /\ pc' = "loop"
    /\ UNCHANGED <<bar, sigset, kernel, rfds_read, rfds_exc, avail_fds, sig, calls, budget>>

(***************************************************************************)
(* The loop top: the two copies of the Wait Set.  calls starts again, and  *)
(* the locals the iteration overwrites before reading them are cleared.    *)
(***************************************************************************)
\* a copy that stops one descriptor short of nfds
copy_fd_set_short(source, n) == {i \in 0 .. (n - 2) : i \in source}

\* lines 44-47: FD_ZERO(dest), then FD_SET of every i < nfds set in source
copy_fd_set(source, n) == {i \in 0 .. (n - 1) : i \in source}

LoopTop ==
    /\ pc = "loop"
    /\ rfds_read' = copy_fd_set(rfds, nfds)
    /\ rfds_exc' = copy_fd_set(rfds, nfds)
    /\ avail_fds' = 0
    /\ sig' = 0
    /\ calls' = <<>>
    /\ pc' = "select"
    /\ UNCHANGED <<bar, sigset, kernel, rfds, nfds, budget>>

(***************************************************************************)
(* select(nfds, &rfds_read, NULL, &rfds_exc, NULL) and what follows it up  *)
(* to the test of the signal descriptor.                                   *)
(***************************************************************************)
\* the test of the signal descriptor left out
after_select_never_reads(readset) == "sweep"

\* line 263: the next step reads the signal descriptor, or goes on to the sweep
after_select(readset) == IF sigfd \in readset THEN "sigread" ELSE "sweep"

\* EINTR without its continue: the iteration goes on to line 263
SelectInterrupted_falling_through ==
    /\ pc = "select"
    /\ CanSpend /\ Spend
    /\ avail_fds' = -1
    /\ calls' = Append(calls, Call("select", -1, EINTR, -1))
    /\ pc' = after_select(rfds_read)
    /\ UNCHANGED <<bar, sigset, kernel, rfds, nfds, rfds_read, rfds_exc, sig>>

\* errno == EINTR: continue
SelectInterrupted ==
    /\ pc = "select"
    /\ CanSpend /\ Spend
    /\ avail_fds' = -1
    /\ calls' = Append(calls, Call("select", -1, EINTR, -1))
    /\ pc' = "loop"
    /\ UNCHANGED <<bar, sigset, kernel, rfds, nfds, rfds_read, rfds_exc, sig>>

\* line 249: block i is taken for faulty
faulty_block(i, exc) == is_blocking(i) /\ (out(i) \in exc \/ err(i) \in exc)

RECURSIVE broken_calls(_, _)
\* lines 244-256, from block i on: berror and block_read_std(block, 1, 0)
broken_calls(i, exc) ==
    IF i < num
    THEN (IF faulty_block(i, exc)
          THEN <<Call("berror", i, 0, 0), Call("block_read_std", i, 1, 0)>>
          ELSE <<>>) \o broken_calls(i + 1, exc)
    ELSE <<>>

\* the error branch without its FD_CLR lines
cleared_rfds_nothing(set, exc) == set

\* lines 252-253: FD_CLR of the descriptors of every block taken for faulty
cleared_rfds(set, exc) ==
    set \ UNION {{out(i), err(i)} : i \in {j \in Blocks : faulty_block(j, exc)}}

\* select fails with another error, because of a descriptor of watched block f
\* (EBADF) or of none (f = -1); a failing select leaves the sets as they were passed
SelectError ==
    /\ pc = "select"
    /\ CanSpend /\ Spend
    /\ \E f \in {-1} \cup {i \in Blocks : is_blocking(i) /\ out(i) \in rfds} :
         calls' = <<Call("select", -1, 0, f)>> \o broken_calls(0, rfds_exc)
    /\ avail_fds' = -1
    /\ rfds' = cleared_rfds(rfds, rfds_exc)
    /\ pc' = after_select(rfds_read)
    /\ UNCHANGED <<bar, sigset, kernel, nfds, rfds_read, rfds_exc, sig>>

\* "should not happen: select returned 0 (timeout)": break
SelectZero ==
    /\ pc = "select"
    /\ CanSpend /\ Spend
    /\ avail_fds' = 0
    /\ rfds_read' = {}
    /\ rfds_exc' = {}
    /\ calls' = Append(calls, Call("select", 0, 0, -1))
    /\ pc' = "unblock"
    /\ UNCHANGED <<bar, sigset, kernel, rfds, nfds, sig>>

\* select returns the ready descriptors: the signal descriptor if a signal is
\* pending, and any of the watched pipes
SelectReady ==
    /\ pc = "select"
    /\ \E data \in SUBSET (rfds_read \ {sigfd}) :
         LET ready == data \cup (IF pending # {} THEN rfds_read \cap {sigfd} ELSE {})
         IN  /\ ready # {}
             /\ rfds_read' = ready
             /\ rfds_exc' = {}
             /\ avail_fds' = Cardinality(ready)
             /\ calls' = Append(calls, Call("select", Cardinality(ready), 0, -1))
             /\ pc' = after_select(ready)
    /\ UNCHANGED <<bar, sigset, kernel, rfds, nfds, sig, budget>>

(***************************************************************************)
(* read(sigfd, &fdsi, sizeof fdsi) and the dispatch of the signal.         *)
(***************************************************************************)
\* the test of line 276 without its SIGINT half
is_termination_without_SIGINT(s) == s = SIGTERM

\* line 276: sig == SIGTERM || sig == SIGINT
is_termination(s) == s = SIGTERM \/ s = SIGINT

\* SIGCHLD with the display left out
child_exit_calls_without_render == <<Call("bar_poll_exited", 0, 0, 0)>>

\* lines 285-286: bar_poll_exited(bar); json_print_bar(bar);
child_exit_calls == <<Call("bar_poll_exited", 0, 0, 0), Call("json_print_bar", 0, 0, 0)>>

\* the range test with SIGRTMIN itself let in
is_block_signal_from_base(s) == s >= SIGRTMIN /\ s <= SIGRTMAX

\* line 293: sig > SIGRTMIN && sig <= SIGRTMAX
is_block_signal(s) == s > SIGRTMIN /\ s <= SIGRTMAX

\* lines 276-300: the collaborators called for signal s
Dispatch(s) ==
    IF is_termination(s) THEN <<>>
    ELSE IF s = SIGALRM THEN <<Call("bar_poll_outdated", 0, 0, 0)>>
    ELSE IF s = SIGCHLD THEN child_exit_calls
    ELSE IF s = SIGIO THEN <<Call("bar_poll_clicked", 0, 0, 0)>>
    ELSE IF is_block_signal(s) THEN <<Call("bar_poll_signaled", s - SIGRTMIN, 0, 0)>>
    ELSE <<>>

\* a read that takes every pending signal off the descriptor
ReadSignal_draining ==
    /\ pc = "sigread"
    /\ \E s \in pending :
         /\ pending' = {}
         /\ sig' = s
         /\ calls' = (calls \o <<Call("read", 1, s, 0)>>) \o Dispatch(s)
         /\ IF is_termination(s)
            THEN UNCHANGED <<running, zombies>>
            ELSE Collaborate(s)
         /\ pc' = IF is_termination(s) THEN "unblock" ELSE "sweep"
    /\ avail_fds' = avail_fds - 1
    /\ UNCHANGED <<bar, sigset, blocked, itimer, rfds, nfds, rfds_read, rfds_exc, budget>>

\* the read returns one full record: the descriptor yields one pending signal
ReadSignal ==
    /\ pc = "sigread"
    /\ \E s \in pending :
         /\ pending' = pending \ {s}
         /\ sig' = s
         /\ calls' = (calls \o <<Call("read", 1, s, 0)>>) \o Dispatch(s)
         /\ IF is_termination(s)
            THEN UNCHANGED <<running, zombies>>
            ELSE Collaborate(s)
         /\ pc' = IF is_termination(s) THEN "unblock" ELSE "sweep"
    /\ avail_fds' = avail_fds - 1
    /\ UNCHANGED <<bar, sigset, blocked, itimer, rfds, nfds, rfds_read, rfds_exc, budget>>

\* size_read != sizeof(struct signalfd_siginfo): errorx("read"), break
ReadShort ==
    /\ pc = "sigread"
    /\ CanSpend /\ Spend
    /\ avail_fds' = avail_fds - 1
    /\ calls' = Append(calls, Call("read", 0, 0, 0))
    /\ pc' = "unblock"
    /\ UNCHANGED <<bar, sigset, kernel, rfds, nfds, rfds_read, rfds_exc, sig>>

(***************************************************************************)
(* Lines 303-319: the sweep over the readable pipes.                       *)
(***************************************************************************)
ready_out(i, readset) == IF out(i) \in readset THEN READY_STDOUT ELSE 0
ready_err(i, readset) == IF err(i) \in readset THEN READY_STDERR ELSE 0
\* ready_out | ready_err: the two flags are distinct bits
ready_flags(i, readset) == ready_out(i, readset) + ready_err(i, readset)

RECURSIVE sweep_calls(_, _)
\* the loop from block i on: block_read_std(block, 0, ready_out | ready_err)
sweep_calls(i, readset) ==
    IF i < num
    THEN (IF is_blocking(i) /\ ready_flags(i, readset) # 0
          THEN <<Call("block_read_std", i, 0, ready_flags(i, readset))>>
          ELSE <<>>) \o sweep_calls(i + 1, readset)
    ELSE <<>>

\* the sweep leaving its display to the one of the child-exit dispatch
Sweep_merging_renders ==
    /\ pc = "sweep"
    /\ IF avail_fds = 0
       THEN calls' = calls
       ELSE LET swept == sweep_calls(0, rfds_read)
                updated == swept # <<>> /\ sig # SIGCHLD
            IN  calls' = (calls \o swept) \o
                         (IF updated THEN <<Call("json_print_bar", 0, 0, 0)>> ELSE <<>>)
    /\ pc' = "loop"
    /\ UNCHANGED <<bar, sigset, kernel, locals, budget>>

Sweep ==
    /\ pc = "sweep"
    /\ IF avail_fds = 0
       THEN calls' = calls
       ELSE LET swept == sweep_calls(0, rfds_read)
                updated == swept # <<>>
            IN  calls' = (calls \o swept) \o
                         (IF updated THEN <<Call("json_print_bar", 0, 0, 0)>> ELSE <<>>)
    /\ pc' = "loop"
    /\ UNCHANGED <<bar, sigset, kernel, locals, budget>>

(***************************************************************************)
(* Lines 326-329: the shutdown sequence.                                   *)
(***************************************************************************)
\* sigprocmask(SIG_UNBLOCK, &sigset, NULL): what was pending is delivered
Unblock ==
    /\ pc = "unblock"
    /\ blocked' = blocked \ sigset
    /\ pending' = {}
    /\ pc' = IF \E s \in pending : s \in sigset /\ DefaultTerminates(s)
             THEN "killed" ELSE "reap"
    /\ UNCHANGED <<bar, sigset, itimer, running, zombies, locals, calls, budget>>

\* a wait that does not block (WNOHANG): no zombie, so it returns at once
waitpid_result_nohang(z, r) == IF z > 0 THEN "reaped" ELSE "none"

\* what waitpid(-1, NULL, 0) does with z zombies and r running children:
\* it reaps one, waits for one to exit, or fails with ECHILD
waitpid_result(z, r) ==
    IF z > 0 THEN "reaped" ELSE IF r > 0 THEN "waiting" ELSE "none"

\* waitpid returned a pid: continue
WaitpidReaps ==
    /\ pc = "reap"
    /\ waitpid_result(zombies, running) = "reaped"
    /\ zombies' = zombies - 1
    /\ UNCHANGED <<bar, pc, sigset, blocked, pending, itimer, running, locals, calls, budget>>

\* waitpid returned -1: sched_start returns
WaitpidDone ==
    /\ pc = "reap"
    /\ waitpid_result(zombies, running) = "none"
    /\ pc' = "returned"
    /\ UNCHANGED <<bar, sigset, kernel, locals, calls, budget>>

(***************************************************************************)
(* The specifications.                                                     *)
(***************************************************************************)
\* the intervals of the bars the reactor is run on
ReactorIntervals == {INTER_BLOCKING, INTER_ONCE, 2}

InitState ==
    /\ pc = "init"
    /\ sigset = {}
    /\ blocked = {}
    /\ pending = {}
    /\ itimer = [it_value |-> 0, it_interval |-> 0]
    /\ running = 0
    /\ zombies = 0
    /\ rfds = {}
    /\ nfds = 0
    /\ rfds_read = {}
    /\ rfds_exc = {}
    /\ avail_fds = 0
    /\ sig = 0
    /\ calls = <<>>

Init ==
    /\ bar \in SeqOver(ReactorIntervals, MaxBlocks)
    /\ budget = -1
    /\ InitState

Process ==
    \/ SetupSignals \/ SetupTimer \/ SetupStdin
    \/ Start \/ BuildWaitSet \/ LoopTop
    \/ SelectInterrupted \/ SelectError \/ SelectZero \/ SelectReady
    \/ ReadSignal \/ ReadShort
    \/ Sweep
    \/ Unblock \/ WaitpidReaps \/ WaitpidDone

Environment == RaiseSignal \/ TimerExpiry \/ ChildExit

Next == Process \/ Environment

Spec == Init /\ [][Next]_vars

(***************************************************************************)
(* sched_init alone, on bars of every shape, with the timer running.       *)
(***************************************************************************)
InitIntervals == {INTER_BLOCKING, INTER_ONCE} \cup (0 .. MaxInterval)

InitOfInit ==
    /\ bar \in SeqOver(InitIntervals, MaxBarLen)
    /\ budget = -1
    /\ InitState

NextOfInit == SetupSignals \/ SetupTimer \/ SetupStdin \/ TimerExpiry

SpecInit == InitOfInit /\ [][NextOfInit]_vars

(***************************************************************************)
(* Helpers of the properties.                                              *)
(***************************************************************************)
Entries == 1 .. Len(calls)
Positives(b) == {b[k] : k \in {j \in 1 .. Len(b) : b[j] > 0}}
TimerSetUp == \E k \in Entries : calls[k][1] = "setup_timer" /\ calls[k][2] = 0

(***************************************************************************)
(* C6: longest_sleep returns the greatest common divisor of the strictly   *)
(* positive intervals of the bar, wherever they stand: the value           *)
(* setup_timer gets divides every positive interval, nothing larger does,  *)
(* and it is 0 when no interval is positive.                               *)
(***************************************************************************)
IsGcdOfPositives(t, b) ==
    IF Positives(b) = {}
    THEN t = 0
    ELSE /\ t > 0
         /\ \A p \in Positives(b) : p % t = 0
         /\ \A d \in 1 .. Max(Positives(b)) :
              (\A p \in Positives(b) : p % d = 0) => d <= t
         /\ Cardinality(Positives(b)) = 1 => t \in Positives(b)

C6_LongestSleepIsGcd ==
    \A k \in Entries :
        calls[k][1] = "setup_timer" => IsGcdOfPositives(calls[k][3], bar)

\* a sentinel first, then 4 and 6: the reducer is 2
C6_Witness ==
    /\ bar = <<INTER_BLOCKING, 4, 6>>
    /\ \E k \in Entries : calls[k] = Call("setup_timer", 0, 2, 0)

(***************************************************************************)
(* C7: once setup_timer has succeeded, the timer is armed if and only if   *)
(* some block has a positive interval; armed, its first expiry and its     *)
(* period are both the reducer's output; and with no positive interval the *)
(* process's own timer never generates SIGALRM.                            *)
(***************************************************************************)
C7_TimerArmedIffPositive ==
    TimerSetUp =>
        /\ (itimer.it_value > 0) <=> (Positives(bar) # {})
        /\ itimer.it_value > 0 =>
             /\ itimer.it_value = longest_sleep(bar)
             /\ itimer.it_interval = longest_sleep(bar)
        /\ Positives(bar) = {} => SIGALRM \notin pending

\* the timer of a bar with intervals 4 and 6 has expired after sched_init
C7_Witness ==
    /\ pc = "start"
    /\ bar = <<4, INTER_ONCE, 6>>
    /\ itimer = [it_value |-> 2, it_interval |-> 2]
    /\ SIGALRM \in pending

(***************************************************************************)
(* Helpers of the reactor's properties.                                    *)
(***************************************************************************)
ConfiguredSignals ==
    {SIGTERM, SIGINT, SIGALRM, SIGCHLD, SIGUSR1, SIGUSR2, SIGIO}
        \cup {s \in 1 .. SIGRTMAX : s > SIGRTMIN}
LoopPcs == {"loop", "select", "sigread", "sweep"}
ShutdownPcs == {"unblock", "reap", "returned", "killed"}
Ended == pc \in {"returned", "killed"}
Unreaped == running + zombies
\* the loop was left on reading SIGTERM or SIGINT
TerminationRead == pc \in ShutdownPcs /\ is_termination(sig)
Finalizes(c, b) == c[1] = "block_read_std" /\ c[2] = b /\ c[3] = 1
Consumes(c, b) == c[1] = "block_read_std" /\ c[2] = b /\ c[3] = 0

(***************************************************************************)
(* C1: after SIGTERM or SIGINT is read, the loop is left, the signal set   *)
(* is unblocked, and the process does not end while a spawned child is     *)
(* unreaped, whatever signals are pending or arrive.                       *)
(***************************************************************************)
C1_NoExitWithUnreapedChild ==
    /\ is_termination(sig) => pc \in ShutdownPcs
    /\ (TerminationRead /\ pc \in {"reap", "returned"}) => blocked \cap ConfiguredSignals = {}
    /\ (TerminationRead /\ Ended) => Unreaped = 0

(***************************************************************************)
(* C2, as claimed: from the success of setup_signals until the process     *)
(* ends, the shutdown included, every configured signal is blocked and     *)
(* none terminates the process by its default disposition.                 *)
(***************************************************************************)
C2_BlockedUntilProcessEnds ==
    /\ pc \in {"timer", "stdin", "start", "build"} \cup LoopPcs \cup {"unblock", "reap"}
           => ConfiguredSignals \subseteq blocked
    /\ pc # "killed"

(***************************************************************************)
(* C2, amended: from the success of setup_signals until the loop is left,  *)
(* every configured signal is blocked, and no step taken from such a state *)
(* ends the process by a signal; the shutdown sequence unblocks the set.   *)
(***************************************************************************)
GatedPcs == {"timer", "stdin", "start", "build"} \cup LoopPcs

C2_BlockedUntilShutdown ==
    /\ [](pc \in GatedPcs => ConfiguredSignals \subseteq blocked)
    /\ [][(pc \in GatedPcs) => (pc' \notin {"killed"})]_vars
    /\ [](pc \in {"reap", "returned"} => ConfiguredSignals \cap blocked = {})

\* SIGIO was sent while the reactor waited in select: it is pending, not delivered
C2_Witness ==
    /\ pc = "select"
    /\ SIGIO \in pending
    /\ SIGTERM \in pending

(***************************************************************************)
(* C3: once a block's descriptors were removed from the Wait Set (its      *)
(* stream finalized with eof = 1), block_read_std(block, 0, ...) is never  *)
(* called for that block again, in the same iteration or a later one.      *)
(***************************************************************************)
C3_NoConsumeAfterRemoval ==
    \A b \in Blocks : \A j \in Entries :
        Consumes(calls[j], b) =>
            /\ ~ \E i \in 1 .. (j - 1) : Finalizes(calls[i], b)
            /\ (pc \in LoopPcs /\ ~ \E i \in Entries : Finalizes(calls[i], b))
                   => out(b) \in rfds /\ err(b) \in rfds

(***************************************************************************)
(* C4: when select fails because of a descriptor of block f, only f is     *)
(* reported broken, removed and finalized; every other block that was      *)
(* watched keeps both its descriptors in the Wait Set.                     *)
(***************************************************************************)
C4_OnlyFaultyBlockRemoved ==
    \A f \in Blocks :
        (calls # <<>> /\ calls[1] = Call("select", -1, 0, f)) =>
            \A g \in Blocks \ {f} :
                /\ ~ \E i \in Entries : calls[i][1] = "berror" /\ calls[i][2] = g
                /\ ~ \E i \in Entries : Finalizes(calls[i], g)
                /\ out(g) \in rfds_read => out(g) \in rfds /\ err(g) \in rfds

(***************************************************************************)
(* C5: when select returns 0 or the read of the signal descriptor does not *)
(* return one full record, the loop is left, nothing more is dispatched,   *)
(* the signal set is unblocked, and sched_start returns only with every    *)
(* child reaped.                                                           *)
(***************************************************************************)
Fatal ==
    /\ calls # <<>>
    /\ calls[Len(calls)] \in {Call("select", 0, 0, -1), Call("read", 0, 0, 0)}

C5_FatalGoesThroughShutdown ==
    /\ [](Fatal => pc \in ShutdownPcs)
    /\ [][Fatal => (calls' = calls)]_vars
    /\ []((Fatal /\ pc \in {"reap", "returned"}) => blocked \cap ConfiguredSignals = {})
    /\ []((Fatal /\ pc = "returned") => Unreaped = 0)

\* after a short read with two children, one of them exited: sched_start has
\* reaped it and waits for the other
C5_Witness ==
    /\ Fatal
    /\ calls[Len(calls)] = Call("read", 0, 0, 0)
    /\ pc = "reap"
    /\ running = 1
    /\ zombies = 0
    /\ num = 2

(***************************************************************************)
(* The read and the dispatch alone, on every signal number.                *)
(***************************************************************************)
InitDispatch ==
    /\ bar = <<>>
    /\ budget = -1
    /\ pc = "sigread"
    /\ sigset = BuiltSigset
    /\ blocked = BuiltSigset
    /\ \E s \in 1 .. SIGRTMAX : pending = {s}
    /\ itimer = [it_value |-> 0, it_interval |-> 0]
    /\ running = 0
    /\ zombies = 0
    /\ rfds = built_rfds
    /\ nfds = built_nfds
    /\ rfds_read = {sigfd}
    /\ rfds_exc = {}
    /\ avail_fds = 1
    /\ sig = 0
    /\ calls = <<Call("select", 1, 0, -1)>>

SpecDispatch == InitDispatch /\ [][ReadSignal]_vars

(***************************************************************************)
(* Runs with a bounded number of environment events, in which the process  *)
(* takes a step whenever it can.                                           *)
(***************************************************************************)
FairInit ==
    /\ bar \in SeqOver({INTER_BLOCKING, 2}, MaxFairBlocks)
    /\ budget = MaxEvents
    /\ InitState

FairSpec == FairInit /\ [][Next]_vars /\ WF_vars(Process)

(***************************************************************************)
(* C8: a signal pending on the descriptor while the reactor is in its loop *)
(* is eventually read and handed to its collaborator, unless the loop ends *)
(* first; ready pipes and failing waits do not make the reactor skip it.   *)
(***************************************************************************)
CollaboratorOf(s) ==
    IF s = SIGALRM THEN "bar_poll_outdated"
    ELSE IF s = SIGCHLD THEN "bar_poll_exited"
    ELSE IF s = SIGIO THEN "bar_poll_clicked"
    ELSE IF s \in ConfiguredSignals /\ s > SIGRTMIN THEN "bar_poll_signaled"
    ELSE "none"

ReadAndDispatched(s) ==
    \E k \in Entries :
        /\ calls[k] = Call("read", 1, s, 0)
        /\ CollaboratorOf(s) # "none" =>
               k < Len(calls) /\ calls[k + 1][1] = CollaboratorOf(s)

C8_PendingSignalIsDispatched ==
    \A s \in RaisedSignals :
        (pc \in LoopPcs /\ s \in pending) ~> (pc \notin LoopPcs \/ ReadAndDispatched(s))

\* a click is dispatched in an iteration whose select failed, with an alarm
\* still pending
C8_Witness ==
    /\ pc = "sweep"
    /\ calls[1][1] = "select" /\ calls[1][2] = -1
    /\ ReadAndDispatched(SIGIO)
    /\ SIGALRM \in pending

(***************************************************************************)
(* C9: the dispatch of a child-exit record calls bar_poll_exited once and  *)
(* then json_print_bar once, whatever the number of children that exited;  *)
(* bar_poll_exited is called for nothing else.                             *)
(***************************************************************************)
C9_ChildExitReapsAndRendersOnce ==
    /\ \A k \in Entries :
         calls[k] = Call("read", 1, SIGCHLD, 0) =>
            /\ Len(calls) >= k + 2
            /\ calls[k + 1] = Call("bar_poll_exited", 0, 0, 0)
            /\ calls[k + 2] = Call("json_print_bar", 0, 0, 0)
            /\ Len(calls) >= k + 3 => calls[k + 3][1] = "block_read_std"
    /\ \A k \in Entries :
         calls[k][1] = "bar_poll_exited" =>
            k > 1 /\ calls[k - 1] = Call("read", 1, SIGCHLD, 0)
    /\ Cardinality({k \in Entries : calls[k][1] = "bar_poll_exited"}) <= 1

\* two children had exited; one SIGCHLD record was read and dispatched, and
\* the sweep of the same iteration is still to come
C9_Witness ==
    /\ pc = "sweep"
    /\ sig = SIGCHLD
    /\ num = 2
    /\ Unreaped = 0
    /\ avail_fds > 0
    /\ Len(calls) = 4

(***************************************************************************)
(* C10: bar_poll_signaled is called for a signal s read from the           *)
(* descriptor if and only if SIGRTMIN < s <= SIGRTMAX, with s - SIGRTMIN;  *)
(* SIGRTMIN itself is ignored.                                             *)
(***************************************************************************)
C10_BlockSignalRange ==
    /\ \A k \in Entries :
         (calls[k][1] = "read" /\ calls[k][2] = 1) =>
            LET s == calls[k][3]
                signaled == k < Len(calls) /\ calls[k + 1][1] = "bar_poll_signaled"
            IN  /\ signaled <=> (SIGRTMIN < s /\ s <= SIGRTMAX)
                /\ signaled => calls[k + 1] = Call("bar_poll_signaled", s - SIGRTMIN, 0, 0)
                /\ s = SIGRTMIN => k = Len(calls)
    /\ \A k \in Entries :
         calls[k][1] = "bar_poll_signaled" => k > 1 /\ calls[k - 1][1] = "read"

\* the last real-time signal reaches index SIGRTMAX - SIGRTMIN
C10_Witness ==
    /\ sig = SIGRTMAX
    /\ calls[Len(calls)] = Call("bar_poll_signaled", 30, 0, 0)

(***************************************************************************)
(* Helpers of the properties of one iteration.                             *)
(***************************************************************************)
\* calls is the trace of an iteration: it starts with the result of select
InIteration == calls # <<>> /\ calls[1][1] = "select"
\* the iteration is over: the next step is the loop top
IterationDone == pc = "loop" /\ InIteration
\* the descriptors select reported readable in this iteration: none when it failed
Reported == IF InIteration /\ calls[1][2] > 0 THEN rfds_read ELSE {}
ConsumeEntries(b) == {k \in Entries : Consumes(calls[k], b)}
\* the renders of the sweep: json_print_bar straight after a block_read_std
SweepRenders ==
    {k \in Entries : calls[k][1] = "json_print_bar" /\ k > 1 /\ calls[k - 1][1] = "block_read_std"}

(***************************************************************************)
(* C11: in one iteration block_read_std(block, 0, flags) is called exactly *)
(* once for each INTER_BLOCKING block with out or err reported readable by *)
(* select, flags naming exactly the readable streams, and for no other     *)
(* block; the sweep renders once if a block was consumed, else not at all. *)
(***************************************************************************)
C11_SweepConsumesExactlyReadable ==
    InIteration =>
        /\ \A b \in Blocks :
             /\ Cardinality(ConsumeEntries(b)) <= 1
             /\ \A k \in ConsumeEntries(b) :
                  /\ is_blocking(b)
                  /\ calls[k][4] # 0
                  /\ calls[k][4] = ready_flags(b, Reported)
             /\ (IterationDone /\ is_blocking(b) /\ ready_flags(b, Reported) # 0)
                    => ConsumeEntries(b) # {}
        /\ Cardinality(SweepRenders) <= 1
        /\ IterationDone =>
              ((SweepRenders # {}) <=> (\E b \in Blocks : ConsumeEntries(b) # {}))

\* the same, over the iterations whose select succeeded
C11_HoldsWhenSelectSucceeds ==
    (InIteration /\ calls[1][2] # -1) => C11_SweepConsumesExactlyReadable

(***************************************************************************)
(* C12: sched_init returns 1 if and only if one of its stages returned     *)
(* non-zero; the stages run in the order setup_signals, setup_timer,       *)
(* eventio_stdin; nothing runs after a stage that failed; eventio_stdin    *)
(* runs only, and always, after isatty answered that stdin is no terminal; *)
(* and whenever the timer is armed the signal set is blocked.              *)
(***************************************************************************)
Stages == {"setup_signals", "setup_timer", "eventio_stdin"}
StageOrder == <<"setup_signals", "setup_timer", "isatty", "eventio_stdin">>
StageFailed(k) == calls[k][1] \in Stages /\ calls[k][2] = 1
InitPcs == {"init", "timer", "stdin", "start", "failed"}

C12_InitFailsIffStageFails ==
    pc \in InitPcs =>
        /\ Len(calls) <= Len(StageOrder)
        /\ \A k \in Entries : calls[k][1] = StageOrder[k]
        /\ (pc = "failed") <=> (\E k \in Entries : StageFailed(k))
        /\ \A k \in Entries : StageFailed(k) => k = Len(calls)
        /\ \A k \in Entries :
             calls[k][1] = "eventio_stdin" => calls[k - 1] = Call("isatty", 0, 0, 0)
        /\ \A k \in Entries :
             calls[k] = Call("isatty", 1, 0, 0) => k = Len(calls)
        /\ pc = "start" =>
             /\ Len(calls) >= 3
             /\ calls[3] = Call("isatty", 0, 0, 0) => Len(calls) = 4
        /\ itimer.it_value > 0 => ConfiguredSignals \subseteq blocked
        /\ (\E k \in Entries : calls[k][1] = "setup_timer") => ConfiguredSignals \subseteq blocked

\* signals and timer were set up, stdin is a pipe, and eventio_stdin failed:
\* sched_init returns 1 with the timer armed and the set blocked
C12_Witness ==
    /\ pc = "failed"
    /\ Len(calls) = 4
    /\ calls[4] = Call("eventio_stdin", 1, 0, 0)
    /\ itimer.it_value > 0
    /\ ConfiguredSignals \subseteq blocked

(***************************************************************************)
(* C13: the signal descriptor is read only in an iteration whose select    *)
(* reported it readable, never in one whose select returned an error, so   *)
(* the read finds a pending signal and does not block.                     *)
(***************************************************************************)
ReadEntries == {k \in Entries : calls[k][1] = "read"}

C13_ReadOnlyWhenReportedReadable ==
    /\ pc = "sigread" =>
         /\ InIteration /\ calls[1][2] > 0
         /\ sigfd \in Reported
         /\ pending # {}
    /\ (InIteration /\ ReadEntries # {}) => calls[1][2] > 0

(***************************************************************************)
(* C14: in one iteration the read of the signal record and the call of its *)
(* collaborator come before every block_read_std(block, 0, ...) of the     *)
(* sweep; when a SIGCHLD record is dispatched and block data is consumed   *)
(* in the same iteration json_print_bar is called twice, once straight     *)
(* after bar_poll_exited and once after the last block_read_std.           *)
(***************************************************************************)
DispatchOps ==
    {"read", "bar_poll_outdated", "bar_poll_exited", "bar_poll_clicked", "bar_poll_signaled"}
RenderEntries == {k \in Entries : calls[k][1] = "json_print_bar"}
SweepEntries == UNION {ConsumeEntries(b) : b \in Blocks}
ChildExitRead == \E k \in Entries : calls[k] = Call("read", 1, SIGCHLD, 0)
DataReported == \E b \in Blocks : is_blocking(b) /\ ready_flags(b, Reported) # 0

C14_DispatchBeforeSweep ==
    InIteration =>
        /\ \A k \in Entries : \A j \in SweepEntries :
             calls[k][1] \in DispatchOps => k < j
        /\ (IterationDone /\ ChildExitRead /\ (DataReported \/ SweepEntries # {})) =>
             /\ Cardinality(RenderEntries) = 2
             /\ \E r1 \in RenderEntries : \E r2 \in RenderEntries :
                  /\ r1 < r2
                  /\ calls[r1 - 1][1] = "bar_poll_exited"
                  /\ r2 = Len(calls)
                  /\ SweepEntries # {}
                  /\ \A j \in SweepEntries : r1 < j /\ j < r2
                  /\ r2 - 1 \in SweepEntries

\* select reported the signal descriptor and both pipes of block 0; the record
\* was SIGCHLD
C14_Witness ==
    /\ IterationDone
    /\ calls = <<Call("select", 3, 0, -1), Call("read", 1, SIGCHLD, 0),
                 Call("bar_poll_exited", 0, 0, 0), Call("json_print_bar", 0, 0, 0),
                 Call("block_read_std", 0, 0, 3), Call("json_print_bar", 0, 0, 0)>>

(***************************************************************************)
(* C15: an iteration reads at most one record from the signal descriptor;  *)
(* a step of the loop takes at most one signal off the descriptor, and     *)
(* only by reading its record, so n pending records take n iterations; and *)
(* the record read is handed to its collaborator at once, before any other *)
(* record is read.                                                         *)
(***************************************************************************)
C15_OneRecordPerWakeUp ==
    /\ [](InIteration => Cardinality(ReadEntries) <= 1)
    /\ [][(pc \in LoopPcs /\ pc' \in LoopPcs /\ ~(pending \subseteq pending')) =>
             (\E s \in pending :
                /\ pending' = pending \ {s}
                /\ sig' = s
                /\ Len(calls') > Len(calls)
                /\ calls'[Len(calls) + 1] = Call("read", 1, s, 0)
                /\ ReadEntries' = {Len(calls) + 1}
                /\ ReadAndDispatched(s)')]_vars
    /\ [](InIteration =>
            \A k \in Entries :
                calls[k][1] \in (DispatchOps \ {"read"}) =>
                    /\ k - 1 \in ReadEntries
                    /\ calls[k][1] = CollaboratorOf(calls[k - 1][3]))

\* two signals were pending; the iteration read and dispatched the click and
\* left the alarm on the descriptor
C15_Witness ==
    /\ IterationDone
    /\ calls = <<Call("select", 1, 0, -1), Call("read", 1, SIGIO, 0),
                 Call("bar_poll_clicked", 0, 0, 0)>>
    /\ pending = {SIGALRM}

(***************************************************************************)
(* C16: when select fails with EINTR the iteration ends there: the Wait    *)
(* Set, the pending signals and the children are as before, no record is   *)
(* read, no collaborator is called, and the next step is the loop top,     *)
(* which hands the same Wait Set to select again.                          *)
(***************************************************************************)
Interrupted == InIteration /\ calls[1] = Call("select", -1, EINTR, -1)

C16_InterruptedWaitIsRetried ==
    /\ [](Interrupted => (pc = "loop" /\ Len(calls) = 1))
    /\ [][(~Interrupted /\ Interrupted') =>
             /\ pc = "select"
             /\ <<rfds, nfds, sig, bar, sigset, kernel>>' = <<rfds, nfds, sig, bar, sigset, kernel>>]_vars
    /\ [][Interrupted =>
             /\ pc' = "select"
             /\ calls' = <<>>
             /\ rfds_read' = rfds /\ rfds_exc' = rfds
             /\ <<rfds, nfds, sig, bar, sigset, kernel>>' = <<rfds, nfds, sig, bar, sigset, kernel>>]_vars

\* select was interrupted while a child-exit record was pending and a block
\* was watched
C16_Witness ==
    /\ Interrupted
    /\ pc = "loop"
    /\ rfds = {sigfd, out(0), err(0)}
    /\ pending = {SIGCHLD}
    /\ zombies = 1

(***************************************************************************)
(* C17: in the loop rfds holds nothing but sigfd and the out and err of    *)
(* INTER_BLOCKING blocks; once built it only loses descriptors; sigfd is   *)
(* never cleared; and the rfds_read and rfds_exc handed to select are both *)
(* equal to rfds.                                                          *)
(***************************************************************************)
Watchable(d) ==
    \/ d = sigfd
    \/ \E i \in Blocks : interval(i) = INTER_BLOCKING /\ (d = out(i) \/ d = err(i))
BuiltPcs == LoopPcs \cup ShutdownPcs

C17_WaitSetOnlyShrinks ==
    /\ [](pc \in BuiltPcs => \A d \in rfds : Watchable(d))
    /\ [](pc \in BuiltPcs => sigfd \in rfds)
    /\ [][(pc \in BuiltPcs) => (rfds' \subseteq rfds)]_vars
    /\ [](pc = "select" => (rfds_read = rfds /\ rfds_exc = rfds))

\* a continuous block and a one-shot block: the pipes of the first were
\* removed after a select error, and select is handed what is left
C17_Witness ==
    /\ pc = "select"
    /\ bar = <<INTER_BLOCKING, INTER_ONCE>>
    /\ rfds = {sigfd}
    /\ rfds_read = {sigfd}
    /\ rfds_exc = {sigfd}

(***************************************************************************)
(* C18: sched_start calls json_print_bar once and then bar_poll_timed      *)
(* once, in that order, before it builds the Wait Set and before the first *)
(* select; until then no signal record is read and no block_read_std is    *)
(* called; and bar_poll_timed is not called again.                         *)
(***************************************************************************)
StartCalls == <<Call("json_print_bar", 0, 0, 0), Call("bar_poll_timed", 0, 0, 0)>>
ReactorOps ==
    DispatchOps \cup {"select", "block_read_std", "berror", "json_print_bar", "bar_poll_timed"}

C18_DisplayThenPollBeforeWaitSet ==
    /\ pc \in InitPcs =>
         /\ \A k \in Entries : calls[k][1] \notin ReactorOps
         /\ rfds = {} /\ nfds = 0
    /\ pc = "build" => (calls = StartCalls /\ rfds = {} /\ nfds = 0)
    /\ (pc = "loop" /\ ~InIteration) => calls = StartCalls
    /\ rfds # {} => pc \in BuiltPcs
    /\ pc \in BuiltPcs =>
         \/ calls = StartCalls /\ pc = "loop"
         \/ calls = <<>> /\ pc = "select"
         \/ InIteration /\ \A k \in Entries : calls[k][1] # "bar_poll_timed"

\* two signals arrived before sched_start; it has displayed the bar and forked
\* a child, and has not built the Wait Set yet
C18_Witness ==
    /\ pc = "build"
    /\ calls = StartCalls
    /\ pending = {SIGIO, SIGTERM}
    /\ running = 1
    /\ rfds = {}

(***************************************************************************)
(* C19: over a run a block is reported broken (berror) and finalized       *)
(* (block_read_std(block, 1, 0)) at most once: a step reports only a block *)
(* whose out and err are in the Wait Set, it removes both, and a block     *)
(* that is not in the Wait Set stays out of it and is not reported by any  *)
(* later select error.                                                     *)
(***************************************************************************)
Reports(c, b) == c[2] = b /\ (c[1] = "berror" \/ Finalizes(c, b))
\* the step appends a report of block b to the trace
ReportedInStep(b) ==
    \E k \in 1 .. Len(calls') : k > Len(calls) /\ Reports(calls'[k], b)

C19_BrokenBlockReportedOnce ==
    /\ [](InIteration =>
            \A b \in Blocks :
                /\ Cardinality({k \in Entries : Finalizes(calls[k], b)}) <= 1
                /\ Cardinality({k \in Entries : calls[k][1] = "berror" /\ calls[k][2] = b}) <= 1)
    /\ [][(pc \in BuiltPcs) =>
             (\A b \in Blocks :
                /\ ReportedInStep(b) => (out(b) \in rfds /\ err(b) \in rfds)
                /\ (ReportedInStep(b) \/ out(b) \notin rfds)
                       => (out(b) \notin rfds' /\ err(b) \notin rfds'))]_vars

\* both blocks were removed in an earlier iteration; select has failed again and
\* nothing but the error is in the trace
C19_Witness ==
    /\ bar = <<INTER_BLOCKING, INTER_BLOCKING>>
    /\ rfds = {sigfd}
    /\ pc \in {"sigread", "sweep"}
    /\ calls = <<Call("select", -1, 0, -1)>>

(***************************************************************************)
(* C20: once a SIGTERM or SIGINT record is read the loop is left and no    *)
(* collaborator is called any more: the read is the last entry of the      *)
(* trace for good, so the iteration has no sweep and no json_print_bar,    *)
(* whatever select reported readable, and the signals still pending on the *)
(* descriptor are not read.                                                *)
(***************************************************************************)
TerminationSignals == {SIGTERM, SIGINT}

C20_NothingAfterTermination ==
    /\ [](sig \in TerminationSignals =>
            /\ pc \in ShutdownPcs
            /\ InIteration
            /\ calls[Len(calls)] = Call("read", 1, sig, 0)
            /\ ReadEntries = {Len(calls)}
            /\ SweepEntries = {}
            /\ RenderEntries = {}
            /\ \A k \in Entries : calls[k][1] \notin (DispatchOps \ {"read"}))
    /\ [][(sig \in TerminationSignals) => (calls' = calls /\ sig' = sig)]_vars
    /\ [][(sig \notin TerminationSignals /\ sig' \in TerminationSignals) =>
             (pc = "sigread" /\ pc' = "unblock" /\ sig' \in pending)]_vars

\* select reported the signal descriptor and both pipes of a block; the record
\* read was SIGTERM, and a child-exit record is left on the descriptor
C20_Witness ==
    /\ pc = "unblock"
    /\ sig = SIGTERM
    /\ calls = <<Call("select", 3, 0, -1), Call("read", 1, SIGTERM, 0)>>
    /\ pending = {SIGCHLD}
    /\ {out(0), err(0)} \subseteq rfds_read

====
